---------------------------- MODULE Spec2Model ----------------------------
(***************************************************************************)
(* Model of the crypto module of colonies-ts (crypto.ts: key generation,   *)
(* secp256k1 point arithmetic, deterministic nonce, raw ECDSA signing,     *)
(* identity derivation) as a state machine over its three exported         *)
(* operations generatePrivateKey, deriveId (id) and sign.                  *)
(*                                                                         *)
(* Scaling.  The source computes on 256-bit BigInts; TLC integers have 32  *)
(* bits.  The model therefore keeps every formula of the source but runs   *)
(* it on a scaled curve of the same family:  y^2 = x^3 + 7  over F_43,     *)
(* whose group has prime order 31 (as for secp256k1: a = 0, the order N is *)
(* a prime below the field prime P, P is below the word range, no point    *)
(* has x = 0 or y = 0).  A byte has 2 bits (two binary "hex" digits) and a *)
(* word has WordLen = 3 bytes where the source has 32, so that             *)
(*      N = 31  <  P = 43  <  ByteBase^WordLen = 64                        *)
(* mirrors  N < P < 2^256.  Strings are sequences of their UTF-8 code      *)
(* units; hex strings are sequences of hex digit values.                   *)
(***************************************************************************)
EXTENDS Integers, Sequences, FiniteSets, TLC

\* ------------------------------------------------------------------------
\* State
\* ------------------------------------------------------------------------

VARIABLES
    G,           \* the module-level array G = [Gx, Gy]
    pc,          \* "idle" | "called" | "done": where the current call stands
    op,          \* the exported function called
    msgArg,      \* sign: its message (UTF-8 code units)
    keyArg,      \* deriveId, sign: its private key (hex digits)
    rndArg,      \* generatePrivateKey: what randomBytes(32) returned
    result,      \* what the call returned or threw
    memo,        \* an earlier sign call an observer kept: its inputs and result
    fn,          \* the internal function called directly (as the unit tests do)
    args,        \* its arguments
    out,         \* what it returned
    stack,       \* jacobianMultiply run call by call: the pending calls
    calls,       \* and the number of recursive calls made so far
    thisPrivateKey, \* ColoniesClient: the field this.privateKey
    requests,    \* the fetches the client has issued that are in flight
    sockets,     \* the WebSockets the client has opened and not seen close
    outcome,     \* what the latest call on the client did, as its caller sees
    configured,  \* the key the latest setPrivateKey call of the user gave
    made         \* the number of calls made on the client so far

vars == <<G, pc, op, msgArg, keyArg, rndArg, result, memo, fn, args, out,
          stack, calls, thisPrivateKey, requests, sockets, outcome, configured,
          made>>

\* the variables of a direct call of an internal function
direct == <<fn, args, out>>

\* the variables of a jacobianMultiply run call by call
recursion == <<stack, calls>>

\* the variables of a ColoniesClient and of who observes it
client == <<thisPrivateKey, requests, sockets, outcome, configured, made>>

\* no jacobianMultiply is being run call by call
NoRecursion == stack = <<>> /\ calls = 0

\* the field privateKey holds null
null == <<>>

NoOutcome == [method |-> "none", status |-> "none", error |-> ""]

\* a client as its constructor leaves it, before any call
NewClient ==
    /\ thisPrivateKey = null
    /\ requests = <<>>
    /\ sockets = <<>>
    /\ outcome = NoOutcome
    /\ configured = null
    /\ made = 0

\* ------------------------------------------------------------------------
\* Bounds of the model (inputs drawn by Init)
\* ------------------------------------------------------------------------

\* private-key inputs: every hex string of at most 2 * MaxKeyBytes digits
MaxKeyBytes == 4

\* message inputs: every string over MsgChars of at most MaxMsgLen chars
MaxMsgLen == 2

\* inputs of the call sequences (SpecHistory): keys of at most
\* 2 * MaxHistKeyBytes hex digits, messages of at most MaxHistMsgLen chars
MaxHistKeyBytes == 1

MaxHistMsgLen == 1

\* direct calls of the point arithmetic on two points: every Jacobian
\* representation with Z in 1 .. MaxZ of every point of the curve
MaxZ == 2

\* direct calls on the point at infinity: every triple (X, 0, Z) with X and
\* Z in 0 .. MaxInfCoord
MaxInfCoord == 1

\* scalars and inverse arguments of the direct calls: MaxWraps multiples of
\* the modulus below zero, and MaxWraps multiples above the modulus
MaxWraps == 1

\* moduli of the direct calls of inv: 1 .. MaxModulus, and N and P
MaxModulus == 13

\* jacobianMultiply run call by call: no run makes more than MaxMultiplyCalls
\* recursive calls (the guard that keeps a run that would not end finite)
MaxMultiplyCalls == 8

\* the calls made on one client
MaxCalls == 3

\* ------------------------------------------------------------------------
\* secp256k1 curve parameters (scaled, see the header)
\* ------------------------------------------------------------------------

A == 0

N == 31

Gx == 2

Gy == 12

P == 43

\* radix of a hex digit (16 in the source) and of a byte (256 in the source)
HexBase == 2

ByteBase == HexBase * HexBase

\* width in bytes of a digest, a key, a coordinate (32 in the source)
WordLen == 3

\* ------------------------------------------------------------------------
\* BigInt arithmetic as JavaScript computes it
\* ------------------------------------------------------------------------

\* a % b of BigInt: the remainder takes the sign of the dividend
JsRem(a, b) == IF a >= 0 THEN a % b ELSE 0 - ((0 - a) % b)

\* a / b of BigInt: the quotient is truncated towards zero
JsDiv(a, b) == IF a >= 0 THEN a \div b ELSE 0 - ((0 - a) \div b)

\* a ** e of BigInt
RECURSIVE Pow(_, _)
Pow(a, e) == IF e = 0 THEN 1 ELSE a * Pow(a, e - 1)

\* a ^ b on two one-bit BigInts
BitXor(a, b) == IF a = b THEN 0 ELSE 1

\* ------------------------------------------------------------------------
\* @noble/hashes/utils: bytesToHex, hexToBytes
\* ------------------------------------------------------------------------

HexDigit == 0 .. (HexBase - 1)

Byte == 0 .. (ByteBase - 1)

RECURSIVE bytesToHex(_)
bytesToHex(bytes) ==
    IF bytes = <<>> THEN <<>>
    ELSE <<Head(bytes) \div HexBase, Head(bytes) % HexBase>> \o bytesToHex(Tail(bytes))

\* hexToBytes throws on a hex string of odd length
hexToBytesThrows(hex) == Len(hex) % 2 = 1

RECURSIVE hexToBytes(_)
hexToBytes(hex) ==
    IF Len(hex) < 2 THEN <<>>
    ELSE <<hex[1] * HexBase + hex[2]>> \o hexToBytes(SubSeq(hex, 3, Len(hex)))

\* value.toString(16): the digits of a positive value, most significant first
RECURSIVE toString16(_)
toString16(value) ==
    IF value < HexBase THEN <<value>>
    ELSE toString16(value \div HexBase) \o <<value % HexBase>>

\* BigInt('0x' + hex)
RECURSIVE parseHex(_)
parseHex(hex) ==
    IF hex = <<>> THEN 0
    ELSE parseHex(SubSeq(hex, 1, Len(hex) - 1)) * HexBase + hex[Len(hex)]

\* new Uint8Array(len).fill(b)
RECURSIVE filled(_, _)
filled(len, b) == IF len <= 0 THEN <<>> ELSE <<b>> \o filled(len - 1, b)

\* ------------------------------------------------------------------------
\* Utility functions
\* ------------------------------------------------------------------------

\* pad32 without the left zero padding of a short value
pad32Unpadded(value) ==
    IF Len(value) >= WordLen THEN SubSeq(value, 1, WordLen) ELSE value

pad32(value) ==
    IF Len(value) >= WordLen THEN SubSeq(value, 1, WordLen)
    ELSE filled(WordLen - Len(value), 0) \o value

intToBigEndian(value) ==
    IF value = 0 THEN <<0>>
    ELSE LET hex == toString16(value)
             paddedHex == IF Len(hex) % 2 = 1 THEN <<0>> \o hex ELSE hex
         IN  hexToBytes(paddedHex)

bigEndianToInt(value) ==
    IF Len(value) = 0 THEN 0 ELSE parseHex(bytesToHex(value))

\* ------------------------------------------------------------------------
\* Elliptic curve math
\* ------------------------------------------------------------------------

\* the loop of inv with hm assigned after lm, so that hm takes the new lm
RECURSIVE invLoopStaleHm(_, _, _, _)
invLoopStaleHm(lm, hm, low, high) ==
    IF low > 1
    THEN LET r == JsDiv(high, low)
             nm == hm - lm * r
             newVal == high - low * r
         IN  invLoopStaleHm(nm, nm, newVal, low)
    ELSE lm

\* the while loop of inv: one extended-Euclid step per iteration
RECURSIVE invLoop(_, _, _, _)
invLoop(lm, hm, low, high) ==
    IF low > 1
    THEN LET r == JsDiv(high, low)
             nm == hm - lm * r
             newVal == high - low * r
         IN  invLoop(nm, lm, newVal, low)
    ELSE lm

\* inv whose result keeps the sign of lm
invTruncated(a, n) ==
    IF a = 0 THEN 0
    ELSE JsRem(invLoop(1, 0, JsRem(JsRem(a, n) + n, n), n), n)

inv(a, n) ==
    IF a = 0 THEN 0
    ELSE LET lm == invLoop(1, 0, JsRem(JsRem(a, n) + n, n), n)
         IN  JsRem(JsRem(lm, n) + n, n)

toJacobian(p) == <<p[1], p[2], 1>>

fromJacobian(p) ==
    LET z == inv(p[3], P)
        z2 == JsRem(z * z, P)
        z3 == JsRem(z2 * z, P)
    IN  <<JsRem(JsRem(p[1] * z2, P) + P, P), JsRem(JsRem(p[2] * z3, P) + P, P)>>

\* jacobianDouble that hands an infinity triple back as it came
jacobianDoubleKeepsInfinity(p) ==
    IF p[2] = 0 THEN p
    ELSE LET ysq == JsRem(Pow(p[2], 2), P)
             S == JsRem(4 * p[1] * ysq, P)
             M == JsRem(3 * Pow(p[1], 2) + A * Pow(p[3], 4), P)
             nx == JsRem(JsRem(Pow(M, 2) - 2 * S, P) + P, P)
             ny == JsRem(JsRem(M * (S - nx) - 8 * Pow(ysq, 2), P) + P, P)
             nz == JsRem(2 * p[2] * p[3], P)
         IN  <<nx, ny, nz>>

\* jacobianDouble with S = 2 x y^2 in place of 4 x y^2
jacobianDoubleHalfS(p) ==
    IF p[2] = 0 THEN <<0, 0, 0>>
    ELSE LET ysq == JsRem(Pow(p[2], 2), P)
             S == JsRem(2 * p[1] * ysq, P)
             M == JsRem(3 * Pow(p[1], 2) + A * Pow(p[3], 4), P)
             nx == JsRem(JsRem(Pow(M, 2) - 2 * S, P) + P, P)
             ny == JsRem(JsRem(M * (S - nx) - 8 * Pow(ysq, 2), P) + P, P)
             nz == JsRem(2 * p[2] * p[3], P)
         IN  <<nx, ny, nz>>

\* jacobianDouble whose differences are reduced by % alone, without + P
jacobianDoubleTruncated(p) ==
    IF p[2] = 0 THEN <<0, 0, 0>>
    ELSE LET ysq == JsRem(Pow(p[2], 2), P)
             S == JsRem(4 * p[1] * ysq, P)
             M == JsRem(3 * Pow(p[1], 2) + A * Pow(p[3], 4), P)
             nx == JsRem(Pow(M, 2) - 2 * S, P)
             ny == JsRem(M * (S - nx) - 8 * Pow(ysq, 2), P)
             nz == JsRem(2 * p[2] * p[3], P)
         IN  <<nx, ny, nz>>

jacobianDouble(p) ==
    IF p[2] = 0 THEN <<0, 0, 0>>
    ELSE LET ysq == JsRem(Pow(p[2], 2), P)
             S == JsRem(4 * p[1] * ysq, P)
             M == JsRem(3 * Pow(p[1], 2) + A * Pow(p[3], 4), P)
             nx == JsRem(JsRem(Pow(M, 2) - 2 * S, P) + P, P)
             ny == JsRem(JsRem(M * (S - nx) - 8 * Pow(ysq, 2), P) + P, P)
             nz == JsRem(2 * p[2] * p[3], P)
         IN  <<nx, ny, nz>>

\* jacobianAdd that doubles whenever the x-projections are equal
jacobianAddNoInverseTest(p, q) ==
    IF p[2] = 0 THEN q
    ELSE IF q[2] = 0 THEN p
    ELSE LET U1 == JsRem(p[1] * Pow(q[3], 2), P)
             U2 == JsRem(q[1] * Pow(p[3], 2), P)
             S1 == JsRem(p[2] * Pow(q[3], 3), P)
             S2 == JsRem(q[2] * Pow(p[3], 3), P)
         IN  IF U1 = U2
             THEN jacobianDouble(p)
             ELSE LET H == JsRem(JsRem(U2 - U1, P) + P, P)
                      R == JsRem(JsRem(S2 - S1, P) + P, P)
                      H2 == JsRem(H * H, P)
                      H3 == JsRem(H * H2, P)
                      U1H2 == JsRem(U1 * H2, P)
                      nx == JsRem(JsRem(Pow(R, 2) - H3 - 2 * U1H2, P) + P, P)
                      ny == JsRem(JsRem(R * (U1H2 - nx) - S1 * H3, P) + P, P)
                      nz == JsRem(H * p[3] * q[3], P)
                  IN  <<nx, ny, nz>>

\* jacobianAdd that hands the other operand back with Z brought to 1
jacobianAddRenormalises(p, q) ==
    IF p[2] = 0 THEN toJacobian(fromJacobian(q))
    ELSE IF q[2] = 0 THEN toJacobian(fromJacobian(p))
    ELSE LET U1 == JsRem(p[1] * Pow(q[3], 2), P)
             U2 == JsRem(q[1] * Pow(p[3], 2), P)
             S1 == JsRem(p[2] * Pow(q[3], 3), P)
             S2 == JsRem(q[2] * Pow(p[3], 3), P)
         IN  IF U1 = U2
             THEN IF S1 # S2 THEN <<0, 0, 1>> ELSE jacobianDouble(p)
             ELSE LET H == JsRem(JsRem(U2 - U1, P) + P, P)
                      R == JsRem(JsRem(S2 - S1, P) + P, P)
                      H2 == JsRem(H * H, P)
                      H3 == JsRem(H * H2, P)
                      U1H2 == JsRem(U1 * H2, P)
                      nx == JsRem(JsRem(Pow(R, 2) - H3 - 2 * U1H2, P) + P, P)
                      ny == JsRem(JsRem(R * (U1H2 - nx) - S1 * H3, P) + P, P)
                      nz == JsRem(H * p[3] * q[3], P)
                  IN  <<nx, ny, nz>>

\* jacobianAdd whose ny takes S2 where the source takes S1
jacobianAddOtherS(p, q) ==
    IF p[2] = 0 THEN q
    ELSE IF q[2] = 0 THEN p
    ELSE LET U1 == JsRem(p[1] * Pow(q[3], 2), P)
             U2 == JsRem(q[1] * Pow(p[3], 2), P)
             S1 == JsRem(p[2] * Pow(q[3], 3), P)
             S2 == JsRem(q[2] * Pow(p[3], 3), P)
         IN  IF U1 = U2
             THEN IF S1 # S2 THEN <<0, 0, 1>> ELSE jacobianDouble(p)
             ELSE LET H == JsRem(JsRem(U2 - U1, P) + P, P)
                      R == JsRem(JsRem(S2 - S1, P) + P, P)
                      H2 == JsRem(H * H, P)
                      H3 == JsRem(H * H2, P)
                      U1H2 == JsRem(U1 * H2, P)
                      nx == JsRem(JsRem(Pow(R, 2) - H3 - 2 * U1H2, P) + P, P)
                      ny == JsRem(JsRem(R * (U1H2 - nx) - S2 * H3, P) + P, P)
                      nz == JsRem(H * p[3] * q[3], P)
                  IN  <<nx, ny, nz>>

jacobianAdd(p, q) ==
    IF p[2] = 0 THEN q
    ELSE IF q[2] = 0 THEN p
    ELSE LET U1 == JsRem(p[1] * Pow(q[3], 2), P)
             U2 == JsRem(q[1] * Pow(p[3], 2), P)
             S1 == JsRem(p[2] * Pow(q[3], 3), P)
             S2 == JsRem(q[2] * Pow(p[3], 3), P)
         IN  IF U1 = U2
             THEN IF S1 # S2 THEN <<0, 0, 1>> ELSE jacobianDouble(p)
             ELSE LET H == JsRem(JsRem(U2 - U1, P) + P, P)
                      R == JsRem(JsRem(S2 - S1, P) + P, P)
                      H2 == JsRem(H * H, P)
                      H3 == JsRem(H * H2, P)
                      U1H2 == JsRem(U1 * H2, P)
                      nx == JsRem(JsRem(Pow(R, 2) - H3 - 2 * U1H2, P) + P, P)
                      ny == JsRem(JsRem(R * (U1H2 - nx) - S1 * H3, P) + P, P)
                      nz == JsRem(H * p[3] * q[3], P)
                  IN  <<nx, ny, nz>>

\* jacobianMultiply that passes a scalar outside [0, N) on without reducing it
RECURSIVE jacobianMultiplyUnreduced(_, _)
jacobianMultiplyUnreduced(a, n) ==
    IF a[2] = 0 \/ n = 0 THEN <<0, 0, 1>>
    ELSE IF n = 1 THEN a
    ELSE IF JsRem(n, 2) = 0
         THEN jacobianDouble(jacobianMultiplyUnreduced(a, JsDiv(n, 2)))
         ELSE jacobianAdd(jacobianDouble(jacobianMultiplyUnreduced(a, JsDiv(n, 2))), a)

\* jacobianMultiply whose odd branch leaves out the addition of a
RECURSIVE jacobianMultiplyNoAdd(_, _)
jacobianMultiplyNoAdd(a, n) ==
    IF a[2] = 0 \/ n = 0 THEN <<0, 0, 1>>
    ELSE IF n = 1 THEN a
    ELSE IF n < 0 \/ n >= N
         THEN jacobianMultiplyNoAdd(a, JsRem(JsRem(n, N) + N, N))
    ELSE jacobianDouble(jacobianMultiplyNoAdd(a, JsDiv(n, 2)))

RECURSIVE jacobianMultiply(_, _)
jacobianMultiply(a, n) ==
    IF a[2] = 0 \/ n = 0 THEN <<0, 0, 1>>
    ELSE IF n = 1 THEN a
    ELSE IF n < 0 \/ n >= N THEN jacobianMultiply(a, JsRem(JsRem(n, N) + N, N))
    ELSE IF JsRem(n, 2) = 0
         THEN jacobianDouble(jacobianMultiply(a, JsDiv(n, 2)))
         ELSE jacobianAdd(jacobianDouble(jacobianMultiply(a, JsDiv(n, 2))), a)

fastMultiply(a, n) == fromJacobian(jacobianMultiply(toJacobian(a), n))

\* encodeRawPublicKey without the padding of the two coordinates
encodeRawPublicKeyUnpadded(rawPublicKey) ==
    intToBigEndian(rawPublicKey[1]) \o intToBigEndian(rawPublicKey[2])

encodeRawPublicKey(rawPublicKey) ==
    LET left == pad32(intToBigEndian(rawPublicKey[1]))
        right == pad32(intToBigEndian(rawPublicKey[2]))
    IN  left \o right

\* ------------------------------------------------------------------------
\* @noble/hashes: sha3_256 and hmac(sha256, key, data)
\*
\* The two hash primitives are external.  The model fixes each as one total
\* function from byte strings to WordLen-byte digests (an absorb-and-reduce
\* hash over the word range), so that equal inputs give equal digests and
\* the digests range over the whole word range.
\* ------------------------------------------------------------------------

\* number of values of a word: ByteBase^WordLen (2^256 in the source)
WordRange == Pow(ByteBase, WordLen)

\* the WordLen-byte big-endian digest with value h
digestBytes(h) ==
    [i \in 1 .. WordLen |-> (h \div Pow(ByteBase, WordLen - i)) % ByteBase]

RECURSIVE absorb(_, _, _)
absorb(st, data, mul) ==
    IF data = <<>> THEN st
    ELSE absorb((st * mul + Head(data) + 1) % WordRange, Tail(data), mul)

sha3_256(data) == digestBytes(absorb(11, data, 21))

hmac(key, data) ==
    digestBytes(absorb((absorb(3, key, 29) * 29 + 2) % WordRange, data, 29))

\* ------------------------------------------------------------------------
\* Key to public key
\* ------------------------------------------------------------------------

\* the range check off by one: a key equal to N passes
privateKeyToPublicKeyThrowsAboveN(privateKeyBytes) ==
    bigEndianToInt(privateKeyBytes) > N

\* privateKeyToPublicKey throws 'Invalid private key'
privateKeyToPublicKeyThrows(privateKeyBytes) ==
    bigEndianToInt(privateKeyBytes) >= N

privateKeyToPublicKey(privateKeyBytes) ==
    LET privateKeyAsNum == bigEndianToInt(privateKeyBytes)
        rawPublicKey == fastMultiply(G, privateKeyAsNum)
    IN  encodeRawPublicKey(rawPublicKey)

\* ------------------------------------------------------------------------
\* ECDSA signing
\* ------------------------------------------------------------------------

\* deterministicGenerateK whose second round starts from v0 again
deterministicGenerateKStaleV(msgHash, privateKeyBytes) ==
    LET v0 == filled(WordLen, 1)
        k0 == filled(WordLen, 0)
        data1 == v0 \o <<0>> \o privateKeyBytes \o msgHash
        k1 == hmac(k0, data1)
        v1 == hmac(k1, v0)
        data2 == v0 \o <<1>> \o privateKeyBytes \o msgHash
        k2 == hmac(k1, data2)
        v2 == hmac(k2, v1)
        kb == hmac(k2, v2)
    IN  bigEndianToInt(kb)

deterministicGenerateK(msgHash, privateKeyBytes) ==
    LET v0 == filled(WordLen, 1)
        k0 == filled(WordLen, 0)
        data1 == v0 \o <<0>> \o privateKeyBytes \o msgHash
        k1 == hmac(k0, data1)
        v1 == hmac(k1, v0)
        data2 == v1 \o <<1>> \o privateKeyBytes \o msgHash
        k2 == hmac(k1, data2)
        v2 == hmac(k2, v1)
        kb == hmac(k2, v2)
    IN  bigEndianToInt(kb)

\* ecdsaRawSign without the canonicalization of s
ecdsaRawSignRawS(msgHash, privateKeyBytes) ==
    LET z == bigEndianToInt(msgHash)
        k == deterministicGenerateK(msgHash, privateKeyBytes)
        ry == fastMultiply(G, k)
        r == ry[1]
        y == ry[2]
        privKeyNum == bigEndianToInt(privateKeyBytes)
        sRaw == JsRem(inv(k, N) * (z + r * privKeyNum), N)
        v == 27 + BitXor(JsRem(y, 2), IF sRaw * 2 < N THEN 0 ELSE 1)
    IN  [v |-> v - 27, r |-> r, s |-> sRaw,
         z |-> z, k |-> k, x |-> ry[1], y |-> y, sRaw |-> sRaw]

\* ecdsaRawSign returning v with the offset 27 still on it
ecdsaRawSignOffsetV(msgHash, privateKeyBytes) ==
    LET z == bigEndianToInt(msgHash)
        k == deterministicGenerateK(msgHash, privateKeyBytes)
        ry == fastMultiply(G, k)
        r == ry[1]
        y == ry[2]
        privKeyNum == bigEndianToInt(privateKeyBytes)
        sRaw == JsRem(inv(k, N) * (z + r * privKeyNum), N)
        v == 27 + BitXor(JsRem(y, 2), IF sRaw * 2 < N THEN 0 ELSE 1)
        s == IF sRaw * 2 < N THEN sRaw ELSE N - sRaw
    IN  [v |-> v, r |-> r, s |-> s,
         z |-> z, k |-> k, x |-> ry[1], y |-> y, sRaw |-> sRaw]

\* ecdsaRawSign returns [v - 27, r, s]; the record also keeps the locals
\* z, k, y and sRaw of the call (x is the local the source names r)
ecdsaRawSign(msgHash, privateKeyBytes) ==
    LET z == bigEndianToInt(msgHash)
        k == deterministicGenerateK(msgHash, privateKeyBytes)
        ry == fastMultiply(G, k)
        r == ry[1]
        y == ry[2]
        privKeyNum == bigEndianToInt(privateKeyBytes)
        sRaw == JsRem(inv(k, N) * (z + r * privKeyNum), N)
        v == 27 + BitXor(JsRem(y, 2), IF sRaw * 2 < N THEN 0 ELSE 1)
        s == IF sRaw * 2 < N THEN sRaw ELSE N - sRaw
    IN  [v |-> v - 27, r |-> r, s |-> s,
         z |-> z, k |-> k, x |-> ry[1], y |-> y, sRaw |-> sRaw]

\* ------------------------------------------------------------------------
\* Exported functions: what a call returns or throws
\* ------------------------------------------------------------------------

\* raw: for sign, the one-element sequence of what ecdsaRawSign computed
Returned(hex, vrs) ==
    [status |-> "returned", value |-> hex, error |-> "", raw |-> vrs]

Thrown(msg) == [status |-> "thrown", value |-> <<>>, error |-> msg, raw |-> <<>>]

\* the UTF-8 code units of the hex digits of a hex string ('0' is 48) 
encodeHexText(hex) == [i \in 1 .. Len(hex) |-> 48 + hex[i]]

generatePrivateKey(randomData) ==
    LET hash == sha3_256(randomData)
    IN  Returned(bytesToHex(hash), <<>>)

deriveId(privateKey) ==
    IF hexToBytesThrows(privateKey) THEN Thrown("hex string expected")
    ELSE LET privateKeyBytes == hexToBytes(privateKey)
         IN  IF privateKeyToPublicKeyThrows(privateKeyBytes)
             THEN Thrown("Invalid private key")
             ELSE LET publicKey == privateKeyToPublicKey(privateKeyBytes)
                      publicKeyHex == <<48, 52>> \o encodeHexText(bytesToHex(publicKey))
                      hash == sha3_256(publicKeyHex)
                  IN  Returned(bytesToHex(hash), <<>>)

\* the signature bytes sign assembles from [v, r, s]
signatureBytes(vrs) ==
    LET vBytes == <<vrs.v>>
        rBytes == pad32(intToBigEndian(vrs.r))
        sBytes == pad32(intToBigEndian(vrs.s))
    IN  rBytes \o sBytes \o vBytes

sign(message, privateKey) ==
    IF hexToBytesThrows(privateKey) THEN Thrown("hex string expected")
    ELSE LET privateKeyBytes == hexToBytes(privateKey)
             msgHash == sha3_256(message)
             vrs == ecdsaRawSign(msgHash, privateKeyBytes)
         IN  Returned(bytesToHex(signatureBytes(vrs)), <<vrs>>)

\* fastMultiply writing its result back into the array it was given
fastMultiplyWritesBack(a, n) == fastMultiply(a, n)

\* what a call of fastMultiply(a, n) leaves in the array a it was given:
\* toJacobian copies a, and no function writes to an array it receives
fastMultiplyLeaves(a, n) == a

\* ------------------------------------------------------------------------
\* Inputs
\* ------------------------------------------------------------------------

\* every sequence over S of length at most n
SeqsUpTo(S, n) == UNION {[1 .. len -> S] : len \in 0 .. n}

KeyInputs == SeqsUpTo(HexDigit, 2 * MaxKeyBytes)

MsgChars == {97, 98}

MsgInputs == SeqsUpTo(MsgChars, MaxMsgLen)

RandomInputs == [1 .. WordLen -> Byte]

CallsOver(keys, msgs, rnds) ==
    {[op |-> "generatePrivateKey", msg |-> <<>>, key |-> <<>>, rnd |-> r] : r \in rnds}
    \cup {[op |-> "deriveId", msg |-> <<>>, key |-> k, rnd |-> <<>>] : k \in keys}
    \cup {[op |-> "sign", msg |-> m, key |-> k, rnd |-> <<>>] : m \in msgs, k \in keys}

NoResult == [status |-> "none", value |-> <<>>, error |-> "", raw |-> <<>>]

\* ------------------------------------------------------------------------
\* The state machine: one call of an exported function per behaviour
\* ------------------------------------------------------------------------

Init ==
    /\ G = <<Gx, Gy>>
    /\ \E c \in CallsOver(KeyInputs, MsgInputs, RandomInputs) :
          /\ op = c.op
          /\ msgArg = c.msg
          /\ keyArg = c.key
          /\ rndArg = c.rnd
    /\ pc = "called"
    /\ result = NoResult
    /\ memo = <<>>
    /\ fn = "none"
    /\ args = <<>>
    /\ out = <<>>
    /\ NoRecursion
    /\ NewClient

GeneratePrivateKey ==
    /\ pc = "called"
    /\ op = "generatePrivateKey"
    /\ result' = generatePrivateKey(rndArg)
    /\ pc' = "done"
    /\ UNCHANGED <<G, op, msgArg, keyArg, rndArg, memo>>
    /\ UNCHANGED direct
    /\ UNCHANGED <<recursion, client>>

DeriveId ==
    /\ pc = "called"
    /\ op = "deriveId"
    /\ result' = deriveId(keyArg)
    /\ G' = IF hexToBytesThrows(keyArg) \/ privateKeyToPublicKeyThrows(hexToBytes(keyArg))
            THEN G
            ELSE fastMultiplyLeaves(G, bigEndianToInt(hexToBytes(keyArg)))
    /\ pc' = "done"
    /\ UNCHANGED <<op, msgArg, keyArg, rndArg, memo>>
    /\ UNCHANGED direct
    /\ UNCHANGED <<recursion, client>>

Sign ==
    /\ pc = "called"
    /\ op = "sign"
    /\ result' = sign(msgArg, keyArg)
    /\ G' = IF result'.raw = <<>> THEN G ELSE fastMultiplyLeaves(G, result'.raw[1].k)
    /\ pc' = "done"
    /\ UNCHANGED <<op, msgArg, keyArg, rndArg, memo>>
    /\ UNCHANGED direct
    /\ UNCHANGED <<recursion, client>>

\* the caller passes the key generatePrivateKey returned on to deriveId
IdOfGeneratedKey ==
    /\ pc = "done"
    /\ op = "generatePrivateKey"
    /\ result.status = "returned"
    /\ op' = "deriveId"
    /\ keyArg' = result.value
    /\ pc' = "called"
    /\ result' = NoResult
    /\ UNCHANGED <<G, msgArg, rndArg, memo>>
    /\ UNCHANGED direct
    /\ UNCHANGED <<recursion, client>>

Next == GeneratePrivateKey \/ DeriveId \/ Sign \/ IdOfGeneratedKey

Spec == Init /\ [][Next]_vars

\* ------------------------------------------------------------------------
\* Call sequences: any number of calls, one after the other, on the same
\* module instance.  An observer keeps one completed sign call (memo) and
\* notes whether a different call was made since (memo.between).
\* ------------------------------------------------------------------------

HistKeyInputs == SeqsUpTo(HexDigit, 2 * MaxHistKeyBytes)

HistMsgInputs == SeqsUpTo({97}, MaxHistMsgLen)

HistRandomInputs ==
    {rnd \in RandomInputs : \A i \in 1 .. (WordLen - MaxHistKeyBytes) : rnd[i] = 0}

HistCalls == CallsOver(HistKeyInputs, HistMsgInputs, HistRandomInputs)

InitHistory ==
    /\ G = <<Gx, Gy>>
    /\ pc = "idle"
    /\ op = "none"
    /\ msgArg = <<>>
    /\ keyArg = <<>>
    /\ rndArg = <<>>
    /\ result = NoResult
    /\ memo = <<>>
    /\ fn = "none"
    /\ args = <<>>
    /\ out = <<>>
    /\ NoRecursion
    /\ NewClient

\* whether call c differs from the sign call the observer kept
DiffersFromMemo(c) ==
    \/ c.op # "sign"
    \/ c.msg # memo[1].message
    \/ c.key # memo[1].privateKey

\* the caller makes the next call
Invoke ==
    /\ pc \in {"idle", "done"}
    /\ \E c \in HistCalls :
          /\ op' = c.op
          /\ msgArg' = c.msg
          /\ keyArg' = c.key
          /\ rndArg' = c.rnd
          /\ memo' = IF memo = <<>> THEN memo
                     ELSE <<[memo[1] EXCEPT !.between = @ \/ DiffersFromMemo(c)]>>
    /\ pc' = "called"
    /\ result' = NoResult
    /\ UNCHANGED G
    /\ UNCHANGED direct
    /\ UNCHANGED <<recursion, client>>

\* the observer keeps the sign call that has just returned
Keep ==
    /\ pc = "done"
    /\ op = "sign"
    /\ memo = <<>>
    /\ memo' = <<[message |-> msgArg, privateKey |-> keyArg,
                 result |-> result, between |-> FALSE]>>
    /\ UNCHANGED <<G, pc, op, msgArg, keyArg, rndArg, result>>
    /\ UNCHANGED direct
    /\ UNCHANGED <<recursion, client>>

NextHistory == Invoke \/ Keep \/ GeneratePrivateKey \/ DeriveId \/ Sign

SpecHistory == InitHistory /\ [][NextHistory]_vars

\* ------------------------------------------------------------------------
\* Direct calls of the internal functions
\*
\* The unit tests call the internal functions through the _internal export;
\* here one such call is drawn by the initial state and the called function
\* completes it.  points on the curve satisfy y^2 = x^3 + 7 (mod P), the
\* equation of the secp256k1 family the parameters A, P, G belong to.
\* ------------------------------------------------------------------------

CurvePoints ==
    {pt \in (0 .. P - 1) \X (0 .. P - 1) :
        (pt[2] * pt[2]) % P = (pt[1] * pt[1] * pt[1] + A * pt[1] + 7) % P}

\* the Jacobian triple (x z^2, y z^3, z) of the affine point pt
JacobianOf(pt, z) == <<(pt[1] * z * z) % P, (pt[2] * z * z * z) % P, z>>

FiniteJacobians(zs) == {JacobianOf(pt, z) : pt \in CurvePoints, z \in zs}

\* triples with Y = 0, which the point arithmetic takes for infinity
InfinityTriples ==
    {<<x, 0, z>> : x \in 0 .. MaxInfCoord, z \in 0 .. MaxInfCoord}

JacobianInputs == FiniteJacobians(1 .. MaxZ) \cup InfinityTriples

\* every triple with coordinates in [0, P)
TripleInputs == (0 .. P - 1) \X (0 .. P - 1) \X (0 .. P - 1)

AffineInputs == CurvePoints \cup {<<0, 0>>}

ScalarInputs == (0 - MaxWraps * N) .. ((MaxWraps + 1) * N)

ModulusInputs == (1 .. MaxModulus) \cup {N, P}

InvInputs == (0 - MaxWraps * P) .. ((MaxWraps + 1) * P)

DigestInputs == [1 .. WordLen -> Byte]

KeyBytesInputs == SeqsUpTo(Byte, MaxKeyBytes)

InitDirect ==
    /\ G = <<Gx, Gy>>
    /\ pc = "called"
    /\ op = "none"
    /\ msgArg = <<>>
    /\ keyArg = <<>>
    /\ rndArg = <<>>
    /\ result = NoResult
    /\ memo = <<>>
    /\ out = <<>>
    /\ NoRecursion
    /\ NewClient
    /\ \/ /\ fn = "jacobianDouble"
          /\ \E p \in TripleInputs : args = <<p>>
       \/ /\ fn = "jacobianAdd"
          /\ \E p \in JacobianInputs, q \in JacobianInputs : args = <<p, q>>
       \/ /\ fn = "jacobianMultiply"
          /\ \E a \in JacobianInputs, n \in ScalarInputs : args = <<a, n>>
       \/ /\ fn = "fastMultiply"
          /\ \E a \in AffineInputs, n \in ScalarInputs : args = <<a, n>>
       \/ /\ fn = "fromJacobian"
          /\ \E p \in TripleInputs : args = <<p>>
       \/ /\ fn = "inv"
          /\ \E a \in InvInputs, n \in ModulusInputs : args = <<a, n>>
       \/ /\ fn = "deterministicGenerateK"
          /\ \E h \in DigestInputs, k \in KeyBytesInputs : args = <<h, k>>
       \/ /\ fn = "encodeRawPublicKey"
          /\ \E pt \in (0 .. P - 1) \X (0 .. P - 1) : args = <<pt>>

\* what the called function leaves alone
Untouched ==
    <<G, op, msgArg, keyArg, rndArg, result, memo, fn, args, recursion, client>>

JacobianDouble ==
    /\ pc = "called"
    /\ fn = "jacobianDouble"
    /\ out' = jacobianDouble(args[1])
    /\ pc' = "done"
    /\ UNCHANGED Untouched

JacobianAdd ==
    /\ pc = "called"
    /\ fn = "jacobianAdd"
    /\ out' = jacobianAdd(args[1], args[2])
    /\ pc' = "done"
    /\ UNCHANGED Untouched

JacobianMultiply ==
    /\ pc = "called"
    /\ fn = "jacobianMultiply"
    /\ out' = jacobianMultiply(args[1], args[2])
    /\ pc' = "done"
    /\ UNCHANGED Untouched

FastMultiply ==
    /\ pc = "called"
    /\ fn = "fastMultiply"
    /\ out' = fastMultiply(args[1], args[2])
    /\ pc' = "done"
    /\ UNCHANGED Untouched

FromJacobian ==
    /\ pc = "called"
    /\ fn = "fromJacobian"
    /\ out' = fromJacobian(args[1])
    /\ pc' = "done"
    /\ UNCHANGED Untouched

Inv ==
    /\ pc = "called"
    /\ fn = "inv"
    /\ out' = inv(args[1], args[2])
    /\ pc' = "done"
    /\ UNCHANGED Untouched

DeterministicGenerateK ==
    /\ pc = "called"
    /\ fn = "deterministicGenerateK"
    /\ out' = deterministicGenerateK(args[1], args[2])
    /\ pc' = "done"
    /\ UNCHANGED Untouched

EncodeRawPublicKey ==
    /\ pc = "called"
    /\ fn = "encodeRawPublicKey"
    /\ out' = encodeRawPublicKey(args[1])
    /\ pc' = "done"
    /\ UNCHANGED Untouched

NextDirect ==
    \/ JacobianDouble
    \/ JacobianAdd
    \/ JacobianMultiply
    \/ FastMultiply
    \/ FromJacobian
    \/ Inv
    \/ DeterministicGenerateK
    \/ EncodeRawPublicKey

SpecDirect == InitDirect /\ [][NextDirect]_vars

\* ------------------------------------------------------------------------
\* jacobianMultiply, call by call
\*
\* The recursion of jacobianMultiply as the engine runs it: every call is a
\* frame on the stack; a call either returns at once (a base case) or calls
\* itself on a smaller scalar and, when that call has returned, doubles (and
\* adds) what it got.  out holds the value being returned.
\* ------------------------------------------------------------------------

\* the reduction without + N, which leaves a negative scalar negative
reducedScalarTruncated(n) == JsRem(n, N)

\* the scalar the call for a scalar outside [0, N) passes on
reducedScalar(n) == JsRem(JsRem(n, N) + N, N)

\* the scalar the call for an even or odd scalar passes on: n / 2n
halvedScalar(n) == JsDiv(n, 2)

Frame(n, then) == [n |-> n, then |-> then]

\* the points of the runs: the generator in its representations with Z in
\* 1 .. MaxZ, and the infinity triples (a run branches on the point only in
\* its test for infinity)
MultiplyPointInputs ==
    {JacobianOf(<<Gx, Gy>>, z) : z \in 1 .. MaxZ} \cup InfinityTriples

InitMultiply ==
    /\ G = <<Gx, Gy>>
    /\ pc = "called"
    /\ op = "none"
    /\ msgArg = <<>>
    /\ keyArg = <<>>
    /\ rndArg = <<>>
    /\ result = NoResult
    /\ memo = <<>>
    /\ out = <<>>
    /\ NewClient
    /\ fn = "jacobianMultiply"
    /\ calls = 0
    /\ \E a \in MultiplyPointInputs, n \in ScalarInputs :
        /\ args = <<a, n>>
        /\ stack = <<Frame(n, "return")>>

\* what a run of jacobianMultiply leaves alone
OutsideMultiply ==
    <<G, op, msgArg, keyArg, rndArg, result, memo, fn, args, client>>

\* the call on top of the stack starts: a base case returns, any other case
\* calls jacobianMultiply again
MultiplyCall ==
    /\ pc = "called"
    /\ LET a == args[1]
           n == Head(stack).n
           calling(m, then) ==
               /\ calls < MaxMultiplyCalls
               /\ stack' = <<Frame(m, "return"), Frame(n, then)>> \o Tail(stack)
               /\ calls' = calls + 1
               /\ UNCHANGED <<pc, out>>
           returning(v) ==
               /\ out' = v
               /\ stack' = Tail(stack)
               /\ pc' = "returning"
               /\ UNCHANGED calls
       IN  IF a[2] = 0 \/ n = 0 THEN returning(<<0, 0, 1>>)
           ELSE IF n = 1 THEN returning(a)
           ELSE IF n < 0 \/ n >= N THEN calling(reducedScalar(n), "tail")
           ELSE IF JsRem(n, 2) = 0 THEN calling(halvedScalar(n), "double")
           ELSE calling(halvedScalar(n), "doubleAdd")
    /\ UNCHANGED OutsideMultiply

\* a call has returned to the call that made it, which finishes and returns
MultiplyReturn ==
    /\ pc = "returning"
    /\ stack # <<>>
    /\ \E doubled \in {jacobianDouble(out)} :
           out' = CASE Head(stack).then = "tail" -> out
                    [] Head(stack).then = "double" -> doubled
                    [] Head(stack).then = "doubleAdd" ->
                           jacobianAdd(doubled, args[1])
    /\ stack' = Tail(stack)
    /\ UNCHANGED <<pc, calls>>
    /\ UNCHANGED OutsideMultiply

\* the first call has returned to who called jacobianMultiply
MultiplyDone ==
    /\ pc = "returning"
    /\ stack = <<>>
    /\ pc' = "done"
    /\ UNCHANGED <<out, stack, calls>>
    /\ UNCHANGED OutsideMultiply

NextMultiply == MultiplyCall \/ MultiplyReturn \/ MultiplyDone

\* the engine runs a call to its end: a step that can be taken is taken
SpecMultiply == InitMultiply /\ [][NextMultiply]_vars /\ WF_vars(NextMultiply)

\* ------------------------------------------------------------------------
\* ColoniesClient: the calls on one client and the events of its requests
\* and sockets, each step one run-to-completion segment of the event loop
\* ------------------------------------------------------------------------

\* a string held in a field that may also hold null
Str(s) == <<s>>

\* !v of a value that is null or a string
Falsy(v) == v = null \/ v = Str(<<>>)

KeyNotSet == "Private key not set. Call setPrivateKey() first."

\* the keys given to setPrivateKey, assign and addLog: two valid hex
\* strings, one of odd length and the empty string
ClientKeyInputs == {<<0, 1>>, <<1, 0>>, <<1>>, <<>>}

\* RPC methods of the shape  return this.sendRPC(this.createRPCMsg(msg))
RpcMethods == {"getColonies", "channelRead"}

SubscribeMethods == {"subscribeChannel", "subscribeProcess"}

msgtype(method) ==
    CASE method = "getColonies" -> "getcoloniesmsg"
      [] method = "channelRead" -> "channelreadmsg"
      [] method = "assign" -> "assignprocessmsg"
      [] method = "addLog" -> "addlogmsg"
      [] method = "subscribeChannel" -> "subscribechannelmsg"
      [] method = "subscribeProcess" -> "subscribeprocessmsg"

\* encodeBase64Utf8(JSON.stringify(msg)): a text that differs from one
\* message type to the next
encodeBase64Utf8(type) ==
    CASE type = "getcoloniesmsg" -> <<98>>
      [] type = "channelreadmsg" -> <<97, 97>>
      [] type = "assignprocessmsg" -> <<97, 98>>
      [] type = "addlogmsg" -> <<98, 97>>
      [] type = "subscribechannelmsg" -> <<98, 98>>
      [] type = "subscribeprocessmsg" -> <<97, 97, 98>>

MsgTypes ==
    {"getcoloniesmsg", "channelreadmsg", "assignprocessmsg", "addlogmsg",
     "subscribechannelmsg", "subscribeprocessmsg"}

\* this.crypto.sign on the payloads and keys of this client, computed once
cryptoSign ==
    [payload \in {encodeBase64Utf8(t) : t \in MsgTypes}, key \in ClientKeyInputs |->
        sign(payload, key)]

\* what createRPCMsg makes of what this.crypto.sign gave: the message, or
\* what sign threw
rpcMessageOf(type, payload, signature) ==
    IF signature.status = "thrown" THEN Thrown(signature.error)
    ELSE Returned([payloadtype |-> type, payload |-> payload,
                   signature |-> signature.value], <<>>)

\* a createRPCMsg that builds an unsigned message when no key is held
createRPCMsgUnsigned(key, type) ==
    IF Falsy(key)
    THEN Returned([payloadtype |-> type, payload |-> encodeBase64Utf8(type),
                   signature |-> <<>>], <<>>)
    ELSE rpcMessageOf(type, encodeBase64Utf8(type),
                      cryptoSign[encodeBase64Utf8(type), key[1]])

createRPCMsg(key, type) ==
    IF Falsy(key) THEN Thrown(KeyNotSet)
    ELSE rpcMessageOf(type, encodeBase64Utf8(type),
                      cryptoSign[encodeBase64Utf8(type), key[1]])

\* a finally block that restores nothing
restoredKeyNever(originalKey, executorPrvKey) == Str(executorPrvKey)

\* the key the finally block of assign and addLog leaves in the client
restoredKey(originalKey, executorPrvKey) ==
    IF ~Falsy(originalKey) THEN originalKey ELSE Str(executorPrvKey)

\* a fetch in flight; meant is the observer's note of the key the call was
\* to sign with
Request(rpcMessage, meantKey) == [body |-> rpcMessage, meant |-> meantKey]

\* a WebSocket; keyAtCall is the observer's note of the key the client held
\* when the subscription was asked for
Socket(method, key) ==
    [method |-> method, readyState |-> "connecting", sent |-> <<>>,
     keyAtCall |-> key]

Outcome(method, status, error) ==
    [method |-> method, status |-> status, error |-> error]

InitClient ==
    /\ G = <<Gx, Gy>>
    /\ pc = "idle"
    /\ op = "none"
    /\ msgArg = <<>>
    /\ keyArg = <<>>
    /\ rndArg = <<>>
    /\ result = NoResult
    /\ memo = <<>>
    /\ fn = "none"
    /\ args = <<>>
    /\ out = <<>>
    /\ NoRecursion
    /\ NewClient

OutsideClient ==
    <<G, pc, op, msgArg, keyArg, rndArg, result, memo, fn, args, out, recursion>>

SetPrivateKey(privateKey) ==
    /\ made < MaxCalls
    /\ made' = made + 1
    /\ thisPrivateKey' = Str(privateKey)
    /\ configured' = Str(privateKey)
    /\ outcome' = Outcome("setPrivateKey", "returned", "")
    /\ UNCHANGED <<requests, sockets, OutsideClient>>

\* one of the RPC methods: the message is built and signed and the fetch is
\* issued before the method returns its promise
Rpc(method) ==
    /\ made < MaxCalls
    /\ made' = made + 1
    /\ \E rpcMessage \in {createRPCMsg(thisPrivateKey, msgtype(method))} :
           IF rpcMessage.status = "thrown"
           THEN /\ outcome' = Outcome(method, "rejected", rpcMessage.error)
                /\ UNCHANGED requests
           ELSE /\ requests' = Append(requests, Request(rpcMessage.value, configured))
                /\ outcome' = Outcome(method, "pending", "")
    /\ UNCHANGED <<thisPrivateKey, configured, sockets, OutsideClient>>

\* assign: the executor key is set, the message is built and signed, the
\* fetch is issued and the finally block runs, all before the method
\* returns its promise
Assign(executorPrvKey) ==
    /\ made < MaxCalls
    /\ made' = made + 1
    /\ \E originalKey \in {thisPrivateKey},
          rpcMessage \in {createRPCMsg(Str(executorPrvKey), msgtype("assign"))} :
           /\ IF rpcMessage.status = "thrown"
              THEN /\ outcome' = Outcome("assign", "rejected", rpcMessage.error)
                   /\ UNCHANGED requests
              ELSE /\ requests' = Append(requests,
                                      Request(rpcMessage.value, Str(executorPrvKey)))
                   /\ outcome' = Outcome("assign", "pending", "")
           /\ thisPrivateKey' = restoredKey(originalKey, executorPrvKey)
    /\ UNCHANGED <<configured, sockets, OutsideClient>>

\* addLog: as assign
AddLog(executorPrvKey) ==
    /\ made < MaxCalls
    /\ made' = made + 1
    /\ \E originalKey \in {thisPrivateKey},
          rpcMessage \in {createRPCMsg(Str(executorPrvKey), msgtype("addLog"))} :
           /\ IF rpcMessage.status = "thrown"
              THEN /\ outcome' = Outcome("addLog", "rejected", rpcMessage.error)
                   /\ UNCHANGED requests
              ELSE /\ requests' = Append(requests,
                                      Request(rpcMessage.value, Str(executorPrvKey)))
                   /\ outcome' = Outcome("addLog", "pending", "")
           /\ thisPrivateKey' = restoredKey(originalKey, executorPrvKey)
    /\ UNCHANGED <<configured, sockets, OutsideClient>>

\* the fetch of a request settles and sendRPC resolves or rejects
Respond(i) ==
    /\ i \in 1 .. Len(requests)
    /\ requests' = [j \in 1 .. Len(requests) - 1 |->
                        IF j < i THEN requests[j] ELSE requests[j + 1]]
    /\ UNCHANGED <<thisPrivateKey, configured, sockets, outcome, made, OutsideClient>>

\* subscribeChannel and subscribeProcess up to their return of the socket
Subscribe(method) ==
    /\ made < MaxCalls
    /\ made' = made + 1
    /\ IF Falsy(thisPrivateKey)
       THEN /\ outcome' = Outcome(method, "thrown", KeyNotSet)
            /\ UNCHANGED sockets
       ELSE /\ sockets' = Append(sockets, Socket(method, thisPrivateKey))
            /\ outcome' = Outcome(method, "returned", "")
    /\ UNCHANGED <<thisPrivateKey, configured, requests, OutsideClient>>

\* ws.onopen: the subscription message is built, signed and sent
Open(i) ==
    /\ i \in 1 .. Len(sockets)
    /\ sockets[i].readyState = "connecting"
    /\ \E rpcMsg \in {createRPCMsg(thisPrivateKey, msgtype(sockets[i].method))} :
           sockets' = [sockets EXCEPT
               ![i].readyState = "open",
               ![i].sent = IF rpcMsg.status = "thrown" THEN <<>>
                           ELSE <<rpcMsg.value>>]
    /\ UNCHANGED <<thisPrivateKey, configured, requests, outcome, made, OutsideClient>>

\* ws.onclose: the socket is gone
Close(i) ==
    /\ i \in 1 .. Len(sockets)
    /\ sockets' = [j \in 1 .. Len(sockets) - 1 |->
                       IF j < i THEN sockets[j] ELSE sockets[j + 1]]
    /\ UNCHANGED <<thisPrivateKey, configured, requests, outcome, made, OutsideClient>>

NextClient ==
    \/ \E k \in ClientKeyInputs : SetPrivateKey(k)
    \/ \E m \in RpcMethods : Rpc(m)
    \/ \E e \in ClientKeyInputs : Assign(e)
    \/ \E e \in ClientKeyInputs : AddLog(e)
    \/ \E i \in 1 .. Len(requests) : Respond(i)
    \/ \E m \in SubscribeMethods : Subscribe(m)
    \/ \E i \in 1 .. Len(sockets) : Open(i)
    \/ \E i \in 1 .. Len(sockets) : Close(i)

SpecClient == InitClient /\ [][NextClient]_vars

\* ------------------------------------------------------------------------
\* Vocabulary of the properties
\* ------------------------------------------------------------------------

\* the integer a string of hex digits denotes, most significant digit first
RECURSIVE HexValue(_)
HexValue(hex) ==
    IF hex = <<>> THEN 0
    ELSE Head(hex) * Pow(HexBase, Len(hex) - 1) + HexValue(Tail(hex))

IsHexString(hex) == \A i \in 1 .. Len(hex) : hex[i] \in HexDigit

\* the key argument is a string of whole bytes, so it denotes an integer
KeyDecodes == Len(keyArg) % 2 = 0

KeyValue == HexValue(keyArg)

SignDone == pc = "done" /\ op = "sign"

DeriveIdDone == pc = "done" /\ op = "deriveId"

GenerateDone == pc = "done" /\ op = "generatePrivateKey"

SignReturned == SignDone /\ result.status = "returned"

InvalidKeyRaised ==
    /\ result.status = "thrown"
    /\ result.error = "Invalid private key"
    /\ result.value = <<>>

\* the fields of the serialized signature r || s || v
EmittedR == HexValue(SubSeq(result.value, 1, 2 * WordLen))

EmittedS == HexValue(SubSeq(result.value, 2 * WordLen + 1, 4 * WordLen))

EmittedV == HexValue(SubSeq(result.value, 4 * WordLen + 1, Len(result.value)))

\* the locals of the ecdsaRawSign call behind the returned signature
Locals == result.raw[1]

\* ------------------------------------------------------------------------
\* Properties
\* ------------------------------------------------------------------------

\* C1: sign(message, privateKeyHex) raises the invalid-key error and returns
\* no signature whenever the private key decodes to an integer >= N, for
\* every message.
C1_SignRejectsKeyNotBelowN ==
    (SignDone /\ KeyDecodes /\ KeyValue >= N) => InvalidKeyRaised

\* C2: id(privateKeyHex) raises the invalid-key error exactly when the key's
\* big-endian integer value is >= N: every key with a value in [0, N-1],
\* zero included, yields an identity and no error, and every key with a
\* value >= N yields the error and no identity.
C2_IdRejectsExactlyKeysNotBelowN ==
    (DeriveIdDone /\ KeyDecodes) =>
        IF KeyValue >= N
        THEN InvalidKeyRaised
        ELSE /\ result.status = "returned"
             /\ result.error = ""
             /\ Len(result.value) > 0

\* C2 witness: id has returned an identity for a full-width key of value zero
C2_Witness ==
    /\ DeriveIdDone
    /\ Len(keyArg) = 2 * WordLen
    /\ KeyValue = 0
    /\ result.status = "returned"

\* C3: the r emitted by sign equals x mod N, where (x, y) is the affine point
\* k*G for the derived nonce k; so the emitted r is always in [0, N-1], also
\* when the x-coordinate of k*G lies in [N, P-1].
C3_EmittedRIsXModN ==
    SignReturned => (EmittedR = Locals.x % N /\ EmittedR \in 0 .. (N - 1))

\* C4: the nonce k used by rawSign is always a scalar in [1, N-1], for every
\* private key and every message digest.
C4_NonceInRange ==
    SignReturned => Locals.k \in 1 .. (N - 1)

\* C5: for every key K returned by generatePrivateKey(), id(K) succeeds
\* without raising the invalid-key error (and a repeated call id(K) returns
\* the same value: id is a function of K, so the first half decides it).
C5_GeneratedKeyHasId ==
    (DeriveIdDone /\ rndArg # <<>>) =>
        /\ keyArg = bytesToHex(sha3_256(rndArg))
        /\ result.status = "returned"

\* C6: sign is deterministic and history-independent: two calls sign(M, K)
\* return byte-identical output, whatever other calls of generatePrivateKey,
\* id or sign happen before or between them, because no operation retains
\* or mutates state (the curve constants included).
C6_SignIsHistoryIndependent ==
    (SignDone /\ memo # <<>> /\ memo[1].message = msgArg
              /\ memo[1].privateKey = keyArg) =>
        /\ result.status = memo[1].result.status
        /\ result.value = memo[1].result.value
        /\ result.error = memo[1].result.error

\* C6 witness: sign(M, K) has returned a signature a second time, after the
\* kept call and after a different call was made in between
C6_Witness ==
    /\ SignReturned
    /\ memo # <<>>
    /\ memo[1].message = msgArg
    /\ memo[1].privateKey = keyArg
    /\ memo[1].between
    /\ result.value = memo[1].result.value

\* C7: the s emitted by rawSign is canonical (low): with s_raw the value
\* k^-1 * (z + r*d) mod N the call computed, the emitted s equals s_raw when
\* 2*s_raw < N and N - s_raw otherwise, so the emitted s satisfies 2*s < N.
C7_EmittedSIsLow ==
    SignReturned =>
        /\ Locals.sRaw \in 0 .. (N - 1)
        /\ EmittedS = (IF 2 * Locals.sRaw < N THEN Locals.sRaw ELSE N - Locals.sRaw)
        /\ 2 * EmittedS < N

\* C7 witness: a signature whose s_raw was in the upper half and was negated
C7_Witness ==
    /\ SignReturned
    /\ 2 * Locals.sRaw >= N
    /\ EmittedS = N - Locals.sRaw

\* C8: the recovery value v is 0 or 1 and equals (1 if the y-coordinate of
\* k*G is odd, else 0) XOR (1 if s was negated, i.e. 2*s_raw >= N, else 0);
\* the last byte of the serialized signature is that value, with no offset.
C8_RecoveryValue ==
    SignReturned =>
        LET yOdd == IF Locals.y % 2 = 1 THEN 1 ELSE 0
            negated == IF 2 * Locals.sRaw >= N THEN 1 ELSE 0
        IN  /\ Locals.v \in {0, 1}
            /\ Locals.v = (yOdd + negated) % 2
            /\ Len(result.value) = 4 * WordLen + 2
            /\ EmittedV = Locals.v

\* C8 witness: y is even and s was negated, so v = 1 comes from the negation
C8_Witness ==
    /\ SignReturned
    /\ Locals.y % 2 = 0
    /\ Locals.y > 0
    /\ 2 * Locals.sRaw >= N
    /\ EmittedV = 1

\* C9: for every digest z, private key d and nonce k with k mod N # 0, the
\* s_raw computed by rawSign satisfies (s_raw * k) mod N = (z + r*d) mod N,
\* where r is the emitted r; this holds also for nonces k >= N.
C9_EcdsaEquation ==
    (SignReturned /\ Locals.k % N # 0) =>
        /\ Locals.z = HexValue(bytesToHex(sha3_256(msgArg)))
        /\ (Locals.sRaw * Locals.k) % N = (Locals.z + EmittedR * KeyValue) % N

\* C9 witness: a signature made with a nonce above N and a key above zero
C9_Witness ==
    /\ SignReturned
    /\ Locals.k > N
    /\ KeyValue > 0
    /\ Locals.sRaw > 0

\* C10: output lengths are fixed: whenever sign returns, the result is
\* 2*WordLen + 1 bytes (twice as many lowercase hex digits) laid out as r,
\* then s (each WordLen bytes, big-endian, left-zero-padded), then v in the
\* last byte; generatePrivateKey() and id(K) each return 2*WordLen hex digits.
C10_OutputLengths ==
    (pc = "done" /\ result.status = "returned") =>
        /\ IsHexString(result.value)
        /\ op = "sign" =>
              /\ Len(result.value) = 2 * (2 * WordLen + 1)
              /\ EmittedR = Locals.r
              /\ EmittedS = Locals.s
              /\ EmittedV = Locals.v
        /\ op \in {"generatePrivateKey", "deriveId"} =>
              Len(result.value) = 2 * WordLen

\* C10 witness: a signature whose r and s both need left zero padding
C10_Witness ==
    /\ SignReturned
    /\ Locals.r \in 1 .. (ByteBase - 1)
    /\ Locals.s \in 1 .. (ByteBase - 1)

\* ------------------------------------------------------------------------
\* Properties of the direct calls
\* ------------------------------------------------------------------------

DirectDone(f) == pc = "done" /\ fn = f

\* the affine pair that stands for the point at infinity
Infinity == <<0, 0>>

\* the inverse of a in the field of P elements, by search
FieldInverse(a) == CHOOSE x \in 1 .. P - 1 : (a * x) % P = 1

\* the group law on affine points: chord and tangent
AffineSum(p, q) ==
    IF p = Infinity THEN q
    ELSE IF q = Infinity THEN p
    ELSE IF p[1] = q[1] /\ (p[2] + q[2]) % P = 0 THEN Infinity
    ELSE LET slope == IF p = q
                      THEN (3 * p[1] * p[1] * FieldInverse((2 * p[2]) % P)) % P
                      ELSE ((q[2] - p[2]) * FieldInverse((q[1] - p[1]) % P)) % P
             x == (slope * slope - p[1] - q[1]) % P
             y == (slope * (p[1] - x) - p[2]) % P
         IN  <<x, y>>

\* p added to itself k times, one addition after the other
RECURSIVE KFoldSum(_, _)
KFoldSum(p, k) == IF k = 0 THEN Infinity ELSE AffineSum(KFoldSum(p, k - 1), p)

\* C11: for every affine point P of the group and every k in [0, N - 1],
\* fastMultiply(P, k) is the k-fold sum of P under the group law, the point
\* at infinity being returned as the pair (0, 0).
C11_FastMultiplyIsKFoldSum ==
    (DirectDone("fastMultiply") /\ args[2] \in 0 .. N - 1)
        => out = KFoldSum(args[1], args[2])

\* a point multiplied by N - 1 gave its negative
C11_Witness ==
    /\ DirectDone("fastMultiply")
    /\ args[1] \in CurvePoints
    /\ args[2] = N - 1
    /\ out = <<args[1][1], P - args[1][2]>>

\* the affine point a Jacobian triple stands for: (X / Z^2, Y / Z^3), and
\* the point at infinity when Y = 0
AffineOf(p) ==
    IF p[2] = 0 THEN Infinity
    ELSE LET zi == FieldInverse(p[3])
         IN  <<(p[1] * zi * zi) % P, (p[2] * zi * zi * zi) % P>>

\* C12 as stated: jacobianMultiply(P, k) for k outside [0, N) is the result
\* for k mod N; a scalar that is 0 mod N, or a P at infinity, gives the point
\* at infinity (Y = 0); k = 1 returns the triple P itself, whatever P is.
C12_AsStated ==
    DirectDone("jacobianMultiply") =>
        LET a == args[1]
            k == args[2]
        IN  /\ k \notin 0 .. N - 1 => out = jacobianMultiply(a, k % N)
            /\ (k % N = 0 \/ a[2] = 0) => out[2] = 0
            /\ k = 1 => out = a

\* C12: jacobianMultiply(P, k) for k outside [0, N) is the result for
\* k mod N (and so the (k mod N)-fold sum of P); a scalar that is 0 mod N, or
\* a P at infinity, gives the point at infinity (Y = 0); k = 1 returns the
\* triple P itself when P is not at infinity (the infinity case is decided
\* first and returns (0, 0, 1)).
C12_ScalarReductionAndBaseCases ==
    DirectDone("jacobianMultiply") =>
        LET a == args[1]
            k == args[2]
        IN  /\ k \notin 0 .. N - 1 =>
                /\ out = jacobianMultiply(a, k % N)
                /\ AffineOf(out) = KFoldSum(AffineOf(a), k % N)
            /\ (k % N = 0 \/ a[2] = 0) => out[2] = 0
            /\ (k = 1 /\ a[2] # 0) => out = a

\* the scalar -1 was reduced to N - 1: the result is the negative of P
C12_Witness ==
    /\ DirectDone("jacobianMultiply")
    /\ args[2] = 0 - 1
    /\ args[1][2] # 0
    /\ args[1][3] # 1
    /\ AffineOf(out) = <<AffineOf(args[1])[1], P - AffineOf(args[1])[2]>>

\* p is a Jacobian representation of a finite point of the curve
IsFinite(p) == p[2] # 0 /\ p[3] # 0 /\ AffineOf(p) \in CurvePoints

\* p is a Jacobian representation of a point of the curve: of a finite
\* point, or of the point at infinity, which fromJacobian lowers to (0, 0)
\* (Y = 0 and X = 0; the triples (0, 0, 0) and (0, 0, 1) the code builds)
Represents(p) == IsFinite(p) \/ (p[2] = 0 /\ p[1] = 0)

C14_AsStated ==
    DirectDone("jacobianAdd") =>
        /\ args[1][2] = 0 => out = args[2]
        /\ args[2][2] = 0 => out = args[1]

\* C14: add(inf, Q) = Q, the identical triple, for every Q, at infinity or
\* not; add(P, inf) = P, the identical triple, for every P that is not at
\* infinity.  (With both at infinity the result is the second operand.)
C14_AddReturnsOtherOperand ==
    DirectDone("jacobianAdd") =>
        /\ args[1][2] = 0 => out = args[2]
        /\ (args[2][2] = 0 /\ args[1][2] # 0) => out = args[1]

\* both operands were at infinity, as different triples: the second came back
C14_Witness ==
    /\ DirectDone("jacobianAdd")
    /\ args[1][2] = 0
    /\ args[2][2] = 0
    /\ args[1] # args[2]
    /\ out = args[2]

\* C15 as stated: jacobianDouble of a triple (X, 0, Z) is that triple
C15_AsStated ==
    (DirectDone("jacobianDouble") /\ args[1][2] = 0) => out = args[1]

\* C15: jacobianDouble of a triple (X, 0, Z) is the point at infinity as the
\* triple (0, 0, 0), whatever X and Z were
C15_DoubleOfInfinity ==
    (DirectDone("jacobianDouble") /\ args[1][2] = 0) => out = <<0, 0, 0>>

\* an infinity triple other than (0, 0, 0) was doubled
C15_Witness ==
    /\ DirectDone("jacobianDouble")
    /\ args[1][2] = 0
    /\ args[1][1] # 0
    /\ args[1][3] # 0
    /\ out[2] = 0

\* C16: for every Jacobian representation P of a finite point of the curve
\* (Y # 0, Z # 0), fromJacobian(jacobianDouble(P)) is the sum of the point
\* with itself under the affine group law.
C16_JacobianDoubleIsTwoP ==
    (DirectDone("jacobianDouble") /\ IsFinite(args[1]))
        => fromJacobian(out) = AffineSum(AffineOf(args[1]), AffineOf(args[1]))

\* the generator, in a representation with Z other than 1, was doubled
C16_Witness ==
    /\ DirectDone("jacobianDouble")
    /\ args[1][3] \notin {0, 1}
    /\ args[1][2] # 0
    /\ AffineOf(args[1]) = <<Gx, Gy>>
    /\ fromJacobian(out) = KFoldSum(<<Gx, Gy>>, 2)

IsPrime(n) == n > 1 /\ \A d \in 2 .. n - 1 : n % d # 0

\* C17: for every prime modulus n and every integer a (positive, negative
\* or >= n) that is not 0 mod n, inv(a, n) lies in [1, n - 1] and
\* (a * inv(a, n)) mod n = 1; and inv(0, n) = 0.
C17_InvIsModularInverse ==
    (DirectDone("inv") /\ IsPrime(args[2]))
        => LET a == args[1]
               n == args[2]
           IN  /\ a % n # 0 => (out \in 1 .. n - 1 /\ (a * out) % n = 1)
               /\ a = 0 => out = 0

\* a negative argument was inverted modulo P
C17_Witness ==
    /\ DirectDone("inv")
    /\ args[2] = P
    /\ args[1] < 0 - 1
    /\ out > 1
    /\ (args[1] * out) % P = 1

\* every coordinate of the tuple t lies in [0, P)
Normalized(t) == \A i \in 1 .. Len(t) : t[i] \in 0 .. P - 1

\* C18: for inputs with coordinates in [0, P), every coordinate returned by
\* jacobianDouble, jacobianAdd, jacobianMultiply and fromJacobian lies in
\* [0, P); and inv(a, m) lies in [0, m) for every integer a, negative or not.
C18_ResultsNormalized ==
    /\ ( /\ pc = "done"
         /\ fn \in {"jacobianDouble", "jacobianAdd", "jacobianMultiply",
                    "fromJacobian"}
         /\ Normalized(args[1])
         /\ fn = "jacobianAdd" => Normalized(args[2]) ) => Normalized(out)
    /\ DirectDone("inv") => out \in 0 .. args[2] - 1

\* a doubling whose difference M^2 - 2 S was negative before normalization
C18_Witness ==
    /\ DirectDone("jacobianDouble")
    /\ args[1][2] # 0
    /\ LET x == args[1][1]
           y == args[1][2]
           S == (4 * x * ((y * y) % P)) % P
           M == (3 * x * x) % P
       IN  M * M - 2 * S < 0
    /\ Normalized(out)

\* the integer a byte string denotes, most significant byte first
RECURSIVE BigEndianValue(_)
BigEndianValue(bytes) ==
    IF bytes = <<>> THEN 0
    ELSE Head(bytes) * Pow(ByteBase, Len(bytes) - 1) + BigEndianValue(Tail(bytes))

\* the chain of five HMACs over the key priv and the digest
ChainNonce(priv, digest) ==
    LET V == [i \in 1 .. WordLen |-> 1]
        K == [i \in 1 .. WordLen |-> 0]
        K1 == hmac(K, V \o <<0>> \o priv \o digest)
        V1 == hmac(K1, V)
        K2 == hmac(K1, V1 \o <<1>> \o priv \o digest)
        V2 == hmac(K2, V1)
    IN  BigEndianValue(hmac(K2, V2))

\* C19: for all key and digest byte strings the nonce is the big-endian
\* value of HMAC(K2, V2), where V is a word of bytes 1, K a word of bytes 0,
\* K1 = HMAC(K, V || 0 || key || digest), V1 = HMAC(K1, V),
\* K2 = HMAC(K1, V1 || 1 || key || digest), V2 = HMAC(K2, V1): one pass of
\* the chain, without loop or retry.
C19_NonceIsOnePassOfChain ==
    DirectDone("deterministicGenerateK") => out = ChainNonce(args[2], args[1])

\* a nonce not below N was returned for a key of full length: not retried
C19_Witness ==
    /\ DirectDone("deterministicGenerateK")
    /\ Len(args[2]) = WordLen
    /\ out >= N
    /\ out = ChainNonce(args[2], args[1])

\* C20: for every affine point (x, y) with coordinates in [0, P) the
\* encoding has exactly 2 * WordLen bytes, the first WordLen the big-endian
\* left-zero-padded x and the last WordLen the same of y, so that decoding
\* the two halves returns (x, y) and distinct points have distinct encodings.
C20_PublicKeyEncodingLossless ==
    DirectDone("encodeRawPublicKey") =>
        /\ Len(out) = 2 * WordLen
        /\ \A i \in 1 .. Len(out) : out[i] \in Byte
        /\ BigEndianValue(SubSeq(out, 1, WordLen)) = args[1][1]
        /\ BigEndianValue(SubSeq(out, WordLen + 1, 2 * WordLen)) = args[1][2]
        /\ bigEndianToInt(SubSeq(out, 1, WordLen)) = args[1][1]
        /\ bigEndianToInt(SubSeq(out, WordLen + 1, 2 * WordLen)) = args[1][2]
        /\ args[1][1] = 0 => SubSeq(out, 1, WordLen) = [i \in 1 .. WordLen |-> 0]

\* a point with x = 0 and a one-byte y was encoded
C20_Witness ==
    /\ DirectDone("encodeRawPublicKey")
    /\ args[1][1] = 0
    /\ args[1][2] \in 1 .. ByteBase - 1
    /\ Len(out) = 2 * WordLen
    /\ out[2 * WordLen] = args[1][2]

\* ------------------------------------------------------------------------
\* Properties of jacobianMultiply run call by call
\* ------------------------------------------------------------------------

\* the least e with 2^e >= n
RECURSIVE CeilLog2From(_, _)
CeilLog2From(n, e) == IF Pow(2, e) >= n THEN e ELSE CeilLog2From(n, e + 1)

CeilLog2(n) == CeilLog2From(n, 0)

\* the pending calls that wait for a call on the reduced scalar
Reductions == {i \in 1 .. Len(stack) : stack[i].then = "tail"}

\* C22: for every point and every integer scalar (zero, negative, in range
\* or >= N) jacobianMultiply ends: it reduces the scalar at most once, makes
\* at most ceil(log2 N) recursive calls, and returns.
C22_ScalarMultiplyTerminates ==
    /\ [](calls <= CeilLog2(N) /\ Cardinality(Reductions) <= 1)
    /\ <>(pc = "done")

\* a negative scalar was reduced and then halved down to 1: the run took
\* ceil(log2 N) recursive calls and returned what jacobianMultiply returns
C22_Witness ==
    /\ pc = "done"
    /\ fn = "jacobianMultiply"
    /\ stack = <<>>
    /\ args[2] < 0
    /\ args[1][2] # 0
    /\ calls = CeilLog2(N)
    /\ out = jacobianMultiply(args[1], args[2])

\* ------------------------------------------------------------------------
\* Further properties of the direct calls and of sign
\* ------------------------------------------------------------------------

\* C23: for every integer a that is 0 modulo n (0, n, -n, 2n, ...),
\* inv(a, n) returns 0.
C23_InvOfMultipleIsZero ==
    (DirectDone("inv") /\ args[1] % args[2] = 0) => out = 0

\* C24: for every private key with value in [1, N - 1] and every message,
\* the r and the s that sign emits are both non-zero.
C24_SignatureNotDegenerate ==
    (SignReturned /\ KeyValue \in 1 .. N - 1)
        => (EmittedR # 0 /\ EmittedS # 0)

SameValueKeys ==
    {other \in KeyInputs : Len(other) % 2 = 0 /\ HexValue(other) = KeyValue}

\* what a caller sees of a call: whether it returned, and what
Seen(r) == <<r.status, r.value, r.error>>

\* C26: two private-key hex strings that decode to the same integer (they
\* differ in leading zero bytes only) give the same identity and, for every
\* message, the same signature.
C26_KeyOnlyThroughValue ==
    /\ (DeriveIdDone /\ KeyDecodes) =>
           \A other \in SameValueKeys : Seen(deriveId(other)) = Seen(result)
    /\ (SignDone /\ KeyDecodes) =>
           \A other \in SameValueKeys :
               Seen(sign(msgArg, other)) = Seen(result)

\* C26, identity half alone
C26_IdOnlyThroughValue ==
    (DeriveIdDone /\ KeyDecodes) =>
        \A other \in SameValueKeys : Seen(deriveId(other)) = Seen(result)

\* ------------------------------------------------------------------------
\* Properties of the ColoniesClient
\* ------------------------------------------------------------------------

\* the requests in flight, as a set
InFlight(reqs) == {reqs[i] : i \in 1 .. Len(reqs)}

\* the messages written to the sockets
Written(socks) == UNION {{socks[i].sent[j] : j \in 1 .. Len(socks[i].sent)} :
                            i \in 1 .. Len(socks)}

\* the step is a call of a method that signs with the configured key
SigningCall ==
    \/ \E m \in RpcMethods : Rpc(m)
    \/ \E m \in SubscribeMethods : Subscribe(m)

\* the step is a call of assign or addLog
ExecutorCall == \E e \in ClientKeyInputs : Assign(e) \/ AddLog(e)

\* C27: while the client holds no private key, every method that signs with
\* the configured key fails with 'Private key not set. Call setPrivateKey()
\* first.', issues no request, opens no socket and leaves the key as it was;
\* and no step other than assign and addLog issues a request, opens a socket
\* or writes to one.
C27_NoKeyNothingSent ==
    [][Falsy(thisPrivateKey) =>
          /\ SigningCall =>
                 /\ outcome'.status \in {"rejected", "thrown"}
                 /\ outcome'.error = KeyNotSet
                 /\ UNCHANGED <<thisPrivateKey, requests, sockets>>
          /\ ~ExecutorCall =>
                 /\ InFlight(requests') \subseteq InFlight(requests)
                 /\ Len(sockets') <= Len(sockets)
                 /\ Written(sockets') \subseteq Written(sockets)]_vars

\* a keyless client was asked for its colonies and for a subscription in
\* turn, and neither sent anything
C27_Witness ==
    /\ thisPrivateKey = null
    /\ made = 2
    /\ outcome = Outcome("subscribeChannel", "thrown", KeyNotSet)
    /\ requests = <<>>
    /\ sockets = <<>>

\* C28: assign and addLog leave the configured key exactly as it was, for
\* every prior state of the client (a key set, or none), whether or not the
\* request could be built.
C28_ExecutorKeyOnlyTemporary ==
    [][ExecutorCall => thisPrivateKey' = thisPrivateKey]_vars

\* C28 for a client that held a key when assign or addLog was called
C28_RestoredWhenKeySet ==
    [][(ExecutorCall /\ ~Falsy(thisPrivateKey)) =>
           thisPrivateKey' = thisPrivateKey]_vars

\* C29: on a client with a key configured, every request in flight carries
\* the signature of its payload under the key meant for it (the executor key
\* for assign and addLog, the key last given to setPrivateKey for the
\* others), and between calls the client holds the configured key.
C29_SignedWithTheKeyMeant ==
    /\ \A r \in InFlight(requests) :
           ~Falsy(r.meant) =>
               r.body.signature = sign(r.body.payload, r.meant[1]).value
    /\ ~Falsy(configured) => thisPrivateKey = configured

\* an assign is pending and a later request of another method is in flight
\* beside it, the two signed with different keys
C29_Witness ==
    /\ Len(requests) = 2
    /\ requests[1].body.payloadtype = "assignprocessmsg"
    /\ requests[2].body.payloadtype = "getcoloniesmsg"
    /\ requests[2].meant = configured
    /\ requests[1].meant # configured
    /\ thisPrivateKey = configured
    /\ requests[2].body.signature
           # sign(requests[2].body.payload, requests[1].meant[1]).value

\* C30: what a socket was sent carries the signature of its payload under
\* the key the client held when the subscription was asked for.
C30_SignedWithKeyAtCall ==
    \A i \in 1 .. Len(sockets) :
        \A j \in 1 .. Len(sockets[i].sent) :
            sockets[i].sent[j].signature
                = sign(sockets[i].sent[j].payload, sockets[i].keyAtCall[1]).value

\* what the code does: the signature is under the key held at the open event
C30_SignedWithKeyAtOpen ==
    [][\A i \in 1 .. Len(sockets) :
           Open(i) =>
               \A j \in 1 .. Len(sockets'[i].sent) :
                   sockets'[i].sent[j].signature
                       = sign(sockets'[i].sent[j].payload, thisPrivateKey[1]).value]_vars

=============================================================================
